---------------------------- MODULE Spec2Model ----------------------------
(***************************************************************************)
(* Model of visualization-client/scripts/wasm-loading-test/main.py: the   *)
(* wasm loading test.  A thread pool runs three tasks: two process        *)
(* supervisors (_start_http_server, _start_websocket_server, both through *)
(* _start_process) and the browser probe (_start_webdriver).  The         *)
(* module-level block waits for the first completed future, cancels the   *)
(* shared token and re-raises the outcome of the futures that were done.  *)
(*                                                                         *)
(* Every loop iteration and every blocking call of a thread is one step;  *)
(* the operating system (process exits, the backend opening its port, the *)
(* page and the console log the browser produces) is the environment.     *)
(***************************************************************************)
EXTENDS Integers, Sequences, FiniteSets, TLC

\* ------------------------------------------------------------------ bounds

\* Exit codes 0..MaxExitCode are the codes a supervised process may exit with.
MaxExitCode == 2

\* Console logs of up to MaxLogLen lines are read by the probe in a full run.
MaxLogLen == 2

\* Console logs of up to MaxLogInput lines are read when the log evaluation is
\* checked on its own.
MaxLogInput == 5

\* --------------------------------------------------------------- constants

\* signal.SIGTERM: a process it terminates has returncode -SIGTERM.
SIGTERM == 15

_BEGIN_LOGS_MARKER == "----- BEGIN LOGS -----"

\* The two _start_process tasks and the probe task, as submitted to the pool.
Procs == {"http", "ws"}

Probe == "webdriver"

Futures == Procs \cup {Probe}

ExitCodes == 0..MaxExitCode

\* Python's None for an optional integer: the empty tuple; <<c>> is the code c.
None == <<>>

\* A log line is <<prefix, rest>>: the text up to the first blank and the rest.
MarkerLine == <<"console.log:", _BEGIN_LOGS_MARKER>>

LogLines ==
    { MarkerLine,
      <<"console.error:", "panic">>,
      <<"console.error:", "oops">>,
      <<"console.log:", "ready">> }

\* Every content of up to n lines the geckodriver log file may have when it
\* is read.
Logs(n) == UNION { [1..k -> LogLines] : k \in 0..n }

VARIABLES
    event,            \* threading.Event shared by the token and its source
    process,          \* per supervisor: the OS process behind subprocess.Popen
    listening,        \* the backend accepts connections on _WEBSOCKET_PORT
    pc,               \* per future: where its thread stands
    outcome,          \* per future: "running", or how the task ended
    returncode,       \* per supervisor: the local of _start_process
    connection,       \* the local of _poll_visualization_server
    exception,        \* what the poller's last create_connection raised
    body,             \* the text of the body element, "None" before it is read
    driver,           \* the webdriver.Firefox session: "none", "open", "quit"
    marker,           \* the marker script was executed in the session
    page_loads,       \* number of driver.get calls made
    log_file,         \* the geckodriver log file: whether it exists, its lines
    log_lines,        \* the local of _start_webdriver
    severe_messages,  \* the local of _start_webdriver
    printed,          \* the messages written to stdout before sys.exit(1)
    main,             \* where the module-level block stands
    done,             \* the set wait() returned
    raised,           \* the exception leaving the with block, None if none
    exit_code,        \* the interpreter's exit status, None while running
    sim               \* the run of scripts/start-simulation.py

vars ==
    << event, process, listening, pc, outcome, returncode, connection,
       exception, body, driver, marker, page_loads, log_file, log_lines,
       severe_messages, printed, main, done, raised, exit_code, sim >>

tokenVars == << event >>

osVars == << process, listening >>

supVars == << returncode >>

probeVars ==
    << connection, exception, body, driver, marker, page_loads, log_file,
       log_lines, severe_messages, printed >>

mainVars == << main, done, raised, exit_code >>

\* ------------------------------------------------------ cancellation token

\* _CancellationToken.is_cancelled: Event.is_set.
is_cancelled(e) == e

\* _CancellationTokenSource.cancel: Event.set.
cancel(e) == TRUE

\* _create_cancellation_token: a fresh, unset Event.
_create_cancellation_token == FALSE

\* ------------------------------------------------------------- OS process

NotSpawned == [state |-> "NotSpawned", code |-> None, reaped |-> FALSE]

Running == [state |-> "Running", code |-> None, reaped |-> FALSE]

\* Popen.poll: the exit status when the process has ended (which reaps it).
poll(proc) == IF proc.state = "Running" THEN None ELSE proc.code

\* The process after Popen.poll.
Polled(proc) ==
    IF proc.state = "Running" THEN proc ELSE [proc EXCEPT !.reaped = TRUE]

\* Mutant of Terminated: the cancelled branch leaves the loop without
\* send_signal and wait.
NotTerminated(proc) == proc

\* The process after send_signal(SIGTERM) and wait(): a running process is
\* terminated by the signal; one that has ended already is only reaped.
Terminated(proc) ==
    IF proc.state = "Running"
    THEN [state |-> "Killed", code |-> << -SIGTERM >>, reaped |-> TRUE]
    ELSE [proc EXCEPT !.reaped = TRUE]

\* Mutant of Truthy: `if returncode == 1:`, so other exit codes are not seen.
TruthyOne(rc) == rc = <<1>>

\* Python truth of an optional integer: `if returncode:`.
Truthy(rc) == rc # None /\ rc[1] # 0

\* No file at the path mkstemp will return.
NoFile == [exists |-> FALSE, lines |-> <<>>]

\* scripts/start-simulation.py is not running.
NoSimulation == [main |-> "none"]

Finished(f) == pc[f] = "done"

\* Mutant of Raised: the worker keeps only Exception instances, so the
\* SystemExit of sys.exit(1) is lost.
RaisedException(f) ==
    outcome[f] \notin {"running", "Cancelled", "Passed", "SystemExit"}

\* The task ended by raising: Future.exception() is not None.
Raised(f) == outcome[f] \notin {"running", "Cancelled", "Passed"}

Init ==
    /\ event = _create_cancellation_token
    /\ process = [p \in Procs |-> NotSpawned]
    /\ listening = FALSE
    /\ pc = [f \in Futures |-> IF f \in Procs THEN "Popen" ELSE "create_connection"]
    /\ outcome = [f \in Futures |-> "running"]
    /\ returncode = [p \in Procs |-> None]
    /\ connection = "None"
    /\ exception = "None"
    /\ body = "None"
    /\ driver = "none"
    /\ marker = FALSE
    /\ page_loads = 0
    /\ log_file = NoFile
    /\ log_lines = <<>>
    /\ severe_messages = <<>>
    /\ printed = <<>>
    /\ main = "wait"
    /\ done = {}
    /\ raised = None
    /\ exit_code = None
    /\ sim = NoSimulation

\* ------------------------------------------------------------ environment

\* The supervised process ends on its own with exit code c.
ProcessExits(p, c) ==
    /\ process[p].state = "Running"
    /\ process' = [process EXCEPT ![p] = [state |-> "Exited", code |-> <<c>>, reaped |-> FALSE]]
    /\ listening' = IF p = "ws" THEN FALSE ELSE listening
    /\ UNCHANGED << sim, tokenVars, pc, outcome, supVars, probeVars, mainVars >>

\* The backend binds _WEBSOCKET_PORT.
BackendListens ==
    /\ process["ws"].state = "Running"
    /\ ~listening
    /\ listening' = TRUE
    /\ UNCHANGED << sim, tokenVars, process, pc, outcome, supVars, probeVars, mainVars >>

\* --------------------------------------------------------- _start_process

\* subprocess.Popen(command): the process starts.
Popen(p) ==
    /\ pc[p] = "Popen"
    /\ process' = [process EXCEPT ![p] = Running]
    /\ pc' = [pc EXCEPT ![p] = "is_cancelled"]
    /\ UNCHANGED << sim, tokenVars, listening, outcome, supVars, probeVars, mainVars >>

\* subprocess.Popen(command) raises: the executable cannot be launched.
PopenFails(p) ==
    /\ pc[p] = "Popen"
    /\ pc' = [pc EXCEPT ![p] = "done"]
    /\ outcome' = [outcome EXCEPT ![p] = "SpawnError"]
    /\ UNCHANGED << sim, tokenVars, osVars, supVars, probeVars, mainVars >>

\* Mutant of CheckCancelled: the branch clears the Event it has seen.
CheckCancelledClear(p) ==
    /\ pc[p] = "is_cancelled"
    /\ IF is_cancelled(event)
       THEN /\ process' = [process EXCEPT ![p] = Terminated(process[p])]
            /\ listening' = IF p = "ws" THEN FALSE ELSE listening
            /\ pc' = [pc EXCEPT ![p] = "done"]
            /\ outcome' = [outcome EXCEPT ![p] = "Cancelled"]
            /\ event' = FALSE
       ELSE /\ pc' = [pc EXCEPT ![p] = "poll"]
            /\ UNCHANGED << osVars, outcome, event >>
    /\ UNCHANGED << sim, supVars, probeVars, mainVars >>

\* Mutant of CheckCancelled: the branch has no break, so the poll that follows
\* sees the returncode of the terminated process and raises.
CheckCancelledNoBreak(p) ==
    /\ pc[p] = "is_cancelled"
    /\ IF is_cancelled(event)
       THEN /\ process' = [process EXCEPT ![p] = Terminated(process[p])]
            /\ listening' = IF p = "ws" THEN FALSE ELSE listening
            /\ returncode' = [returncode EXCEPT ![p] = Terminated(process[p]).code]
            /\ pc' = [pc EXCEPT ![p] = IF Truthy(Terminated(process[p]).code)
                                       THEN "done" ELSE "is_cancelled"]
            /\ outcome' = [outcome EXCEPT ![p] =
                              IF Truthy(Terminated(process[p]).code)
                              THEN "CalledProcessError" ELSE "running"]
       ELSE /\ pc' = [pc EXCEPT ![p] = "poll"]
            /\ UNCHANGED << osVars, outcome, supVars >>
    /\ UNCHANGED << sim, tokenVars, probeVars, mainVars >>

\* Mutant of CheckCancelled: the signal is sent with os.kill on the pid, which
\* raises ProcessLookupError once the process has ended and was collected.
CheckCancelledKillRaises(p) ==
    /\ pc[p] = "is_cancelled"
    /\ IF is_cancelled(event)
       THEN /\ process' = [process EXCEPT ![p] = Terminated(process[p])]
            /\ listening' = IF p = "ws" THEN FALSE ELSE listening
            /\ pc' = [pc EXCEPT ![p] = "done"]
            /\ outcome' = [outcome EXCEPT ![p] =
                              IF process[p].reaped
                              THEN "ProcessLookupError" ELSE "Cancelled"]
       ELSE /\ pc' = [pc EXCEPT ![p] = "poll"]
            /\ UNCHANGED << osVars, outcome >>
    /\ UNCHANGED << sim, tokenVars, supVars, probeVars, mainVars >>

\* Mutant of CheckCancelled: the exit status is looked at before the token,
\* so a process that has ended abnormally raises although cancelled.
CheckCancelledPollFirst(p) ==
    /\ pc[p] = "is_cancelled"
    /\ IF Truthy(poll(process[p]))
       THEN /\ process' = [process EXCEPT ![p] = Polled(process[p])]
            /\ returncode' = [returncode EXCEPT ![p] = poll(process[p])]
            /\ pc' = [pc EXCEPT ![p] = "done"]
            /\ outcome' = [outcome EXCEPT ![p] = "CalledProcessError"]
            /\ UNCHANGED listening
       ELSE IF is_cancelled(event)
       THEN /\ process' = [process EXCEPT ![p] = Terminated(process[p])]
            /\ listening' = IF p = "ws" THEN FALSE ELSE listening
            /\ pc' = [pc EXCEPT ![p] = "done"]
            /\ outcome' = [outcome EXCEPT ![p] = "Cancelled"]
            /\ UNCHANGED supVars
       ELSE /\ pc' = [pc EXCEPT ![p] = "poll"]
            /\ UNCHANGED << osVars, outcome, supVars >>
    /\ UNCHANGED << sim, tokenVars, probeVars, mainVars >>

\* if cancellation_token.is_cancelled(): send_signal, wait, break.
CheckCancelled(p) ==
    /\ pc[p] = "is_cancelled"
    /\ IF is_cancelled(event)
       THEN /\ process' = [process EXCEPT ![p] = Terminated(process[p])]
            /\ listening' = IF p = "ws" THEN FALSE ELSE listening
            /\ pc' = [pc EXCEPT ![p] = "done"]
            /\ outcome' = [outcome EXCEPT ![p] = "Cancelled"]
       ELSE /\ pc' = [pc EXCEPT ![p] = "poll"]
            /\ UNCHANGED << osVars, outcome >>
    /\ UNCHANGED << sim, tokenVars, supVars, probeVars, mainVars >>

\* returncode = process.poll(); if returncode: raise; time.sleep(0.1).
Poll(p) ==
    /\ pc[p] = "poll"
    /\ returncode' = [returncode EXCEPT ![p] = poll(process[p])]
    /\ process' = [process EXCEPT ![p] = Polled(process[p])]
    /\ IF Truthy(poll(process[p]))
       THEN /\ pc' = [pc EXCEPT ![p] = "done"]
            /\ outcome' = [outcome EXCEPT ![p] = "CalledProcessError"]
       ELSE /\ pc' = [pc EXCEPT ![p] = "is_cancelled"]
            /\ UNCHANGED outcome
    /\ UNCHANGED << sim, tokenVars, listening, probeVars, mainVars >>

Supervisor(p) ==
    \/ Popen(p)
    \/ PopenFails(p)
    \/ CheckCancelled(p)
    \/ Poll(p)

\* ------------------------------------------- _poll_visualization_server

\* create_connection succeeds; break leaves the loop through finally.
Connect ==
    /\ pc[Probe] = "create_connection"
    /\ listening
    /\ connection' = "open"
    /\ pc' = [pc EXCEPT ![Probe] = "finally"]
    /\ UNCHANGED << sim, tokenVars, osVars, outcome, supVars, driver, marker,
                    page_loads, exception, body, log_file, log_lines,
                    severe_messages, printed, mainVars >>

\* create_connection raises ConnectionRefusedError: time.sleep(0.1), retry.
ConnectionRefused ==
    /\ pc[Probe] = "create_connection"
    /\ ~listening
    /\ exception' = "ConnectionRefusedError"
    /\ pc' = [pc EXCEPT ![Probe] = "sleep"]
    /\ UNCHANGED << sim, tokenVars, osVars, outcome, supVars, connection, body,
                    driver, marker, page_loads, log_file, log_lines,
                    severe_messages, printed, mainVars >>

\* time.sleep(0.1) ends; connection = None; the next attempt.
Retry ==
    /\ pc[Probe] = "sleep"
    /\ connection' = "None"
    /\ exception' = "None"
    /\ pc' = [pc EXCEPT ![Probe] = "create_connection"]
    /\ UNCHANGED << sim, tokenVars, osVars, outcome, supVars, body, driver,
                    marker, page_loads, log_file, log_lines, severe_messages,
                    printed, mainVars >>

\* Mutant of ConnectionError: `except OSError:` in place of
\* `except ConnectionRefusedError:`, so every error is slept on and retried.
ConnectionErrorRetried ==
    /\ pc[Probe] = "create_connection"
    /\ exception' = "OSError"
    /\ pc' = [pc EXCEPT ![Probe] = "sleep"]
    /\ UNCHANGED << sim, tokenVars, osVars, outcome, supVars, connection, body,
                    driver, marker, page_loads, log_file, log_lines,
                    severe_messages, printed, mainVars >>

\* create_connection raises another OSError: it leaves the poller and the task.
ConnectionError ==
    /\ pc[Probe] = "create_connection"
    /\ exception' = "OSError"
    /\ pc' = [pc EXCEPT ![Probe] = "done"]
    /\ outcome' = [outcome EXCEPT ![Probe] = "OSError"]
    /\ UNCHANGED << sim, tokenVars, osVars, supVars, connection, body, driver,
                    marker, page_loads, log_file, log_lines, severe_messages,
                    printed, mainVars >>

\* Mutant of CloseConnection: the poller returns without closing the
\* connection.
CloseConnectionLeak ==
    /\ pc[Probe] = "finally"
    /\ pc' = [pc EXCEPT ![Probe] = "Firefox"]
    /\ UNCHANGED << sim, tokenVars, osVars, outcome, supVars, probeVars, mainVars >>

\* finally: connection.close(); the poller returns.
CloseConnection ==
    /\ pc[Probe] = "finally"
    /\ connection' = "closed"
    /\ pc' = [pc EXCEPT ![Probe] = "Firefox"]
    /\ UNCHANGED << sim, tokenVars, osVars, outcome, supVars, driver, marker,
                    page_loads, exception, body, log_file, log_lines,
                    severe_messages, printed, mainVars >>

\* -------------------------------------------------------- _start_webdriver

\* list.index(x): the 0-based position of the first x, -1 standing for
\* ValueError.
RECURSIVE IndexFrom(_, _, _)
IndexFrom(lines, x, i) ==
    IF i > Len(lines) THEN -1
    ELSE IF lines[i] = x THEN i - 1
    ELSE IndexFrom(lines, x, i + 1)

\* Mutant of index: a search that answers 0 for a missing x where list.index
\* raises, so a log without the marker is evaluated whole.
IndexOrStart(lines, x) ==
    IF IndexFrom(lines, x, 1) < 0 THEN 0 ELSE IndexFrom(lines, x, 1)

index(lines, x) == IndexFrom(lines, x, 1)

\* lines[i:] for a 0-based i within the list.
SliceFrom(lines, i) == SubSeq(lines, i + 1, Len(lines))

\* msg.startswith(prefix), for a prefix that is a whole first word.
startswith(msg, prefix) == msg[1] = prefix

IsSevere(msg) == startswith(msg, "console.error:")

\* [msg for msg in log_lines if msg.startswith('console.error:')]
SevereMessages(lines) == SelectSeq(lines, IsSevere)

\* Mutant of FromMarker: the log is not cut at the marker.
WholeLog(lines) == lines

\* log_lines[index_of_start_marker:]
FromMarker(lines) == SliceFrom(lines, index(lines, MarkerLine))

\* mkstemp; webdriver.Firefox(...) starts the session; time.sleep(2).
Firefox ==
    /\ pc[Probe] = "Firefox"
    /\ log_file' = [exists |-> TRUE, lines |-> <<>>]
    /\ driver' = "open"
    /\ pc' = [pc EXCEPT ![Probe] = "get"]
    /\ UNCHANGED << sim, tokenVars, osVars, outcome, supVars, connection, marker,
                    page_loads, exception, body, log_lines, severe_messages,
                    printed, mainVars >>

\* Mutant of Get: the page is loaded once, without the marker and the reload.
GetOnce ==
    /\ pc[Probe] = "get"
    /\ page_loads' = page_loads + 1
    /\ pc' = [pc EXCEPT ![Probe] = "settle"]
    /\ UNCHANGED << sim, tokenVars, osVars, outcome, supVars, connection,
                    exception, body, driver, marker, log_file, log_lines,
                    severe_messages, printed, mainVars >>

\* driver.get: the first load, and the second one after the marker.
Get ==
    /\ pc[Probe] = "get"
    /\ page_loads' = page_loads + 1
    /\ pc' = [pc EXCEPT ![Probe] = IF marker THEN "settle" ELSE "execute_script"]
    /\ UNCHANGED << sim, tokenVars, osVars, outcome, supVars, connection,
                    exception, body, driver, marker, log_file, log_lines,
                    severe_messages, printed, mainVars >>

\* driver.execute_script(console.log(marker)).
ExecuteScript ==
    /\ pc[Probe] = "execute_script"
    /\ marker' = TRUE
    /\ pc' = [pc EXCEPT ![Probe] = "get"]
    /\ UNCHANGED << sim, tokenVars, osVars, outcome, supVars, connection, driver,
                    page_loads, exception, body, log_file, log_lines,
                    severe_messages, printed, mainVars >>

\* time.sleep(2) after the second load.
Settle ==
    /\ pc[Probe] = "settle"
    /\ pc' = [pc EXCEPT ![Probe] = "assert"]
    /\ UNCHANGED << sim, tokenVars, osVars, outcome, supVars, probeVars, mainVars >>

\* Mutant of AssertBody: the assert statement is compiled away (python -O),
\* so the probe goes on to the grace period and the log whatever the body.
AssertBodyStripped(failed) ==
    /\ pc[Probe] = "assert"
    /\ body' = IF failed THEN "Failed to initialize visualization" ELSE "ok"
    /\ pc' = [pc EXCEPT ![Probe] = "sleep_5"]
    /\ UNCHANGED << sim, tokenVars, osVars, outcome, supVars, connection,
                    exception, driver, marker, page_loads, log_file, log_lines,
                    severe_messages, printed, mainVars >>

\* assert 'Failed to initialize visualization' not in body.text, for a body
\* that holds the text (failed) or not; a failed assert leaves the with block.
AssertBody(failed) ==
    /\ pc[Probe] = "assert"
    /\ body' = IF failed THEN "Failed to initialize visualization" ELSE "ok"
    /\ IF failed
       THEN /\ driver' = "quit"
            /\ pc' = [pc EXCEPT ![Probe] = "done"]
            /\ outcome' = [outcome EXCEPT ![Probe] = "AssertionError"]
       ELSE /\ pc' = [pc EXCEPT ![Probe] = "sleep_5"]
            /\ UNCHANGED << driver, outcome >>
    /\ UNCHANGED << sim, tokenVars, osVars, supVars, connection, exception,
                    marker, page_loads, log_file, log_lines, severe_messages,
                    printed, mainVars >>

\* time.sleep(5).
Sleep5 ==
    /\ pc[Probe] = "sleep_5"
    /\ pc' = [pc EXCEPT ![Probe] = "read_log"]
    /\ UNCHANGED << sim, tokenVars, osVars, outcome, supVars, probeVars, mainVars >>

\* The log file holds `lines` when it is read; log_lines.index raises
\* ValueError without the marker line, else the log is cut and filtered.
ReadLog(lines) ==
    /\ pc[Probe] = "read_log"
    /\ log_file' = [exists |-> TRUE, lines |-> lines]
    /\ IF index(lines, MarkerLine) < 0
       THEN /\ log_lines' = lines
            /\ driver' = "quit"
            /\ pc' = [pc EXCEPT ![Probe] = "done"]
            /\ outcome' = [outcome EXCEPT ![Probe] = "ValueError"]
            /\ UNCHANGED severe_messages
       ELSE /\ log_lines' = FromMarker(lines)
            /\ severe_messages' = SevereMessages(FromMarker(lines))
            /\ pc' = [pc EXCEPT ![Probe] = "check_severe"]
            /\ UNCHANGED << driver, outcome >>
    /\ UNCHANGED << sim, tokenVars, osVars, supVars, connection, marker,
                    page_loads, exception, body,
                    printed, mainVars >>

\* if not len(severe_messages) == 0: print them, sys.exit(1); else the with
\* block ends and the session quits.
CheckSevere ==
    /\ pc[Probe] = "check_severe"
    /\ driver' = "quit"
    /\ IF Len(severe_messages) # 0
       THEN /\ printed' = severe_messages
            /\ pc' = [pc EXCEPT ![Probe] = "done"]
            /\ outcome' = [outcome EXCEPT ![Probe] = "SystemExit"]
       ELSE /\ pc' = [pc EXCEPT ![Probe] = "remove"]
            /\ UNCHANGED << printed, outcome >>
    /\ UNCHANGED << sim, tokenVars, osVars, supVars, connection, marker,
                    page_loads, exception, body,
                    log_file, log_lines, severe_messages, mainVars >>

\* if os.path.exists(log_file): os.remove(log_file); the task returns.
RemoveLog ==
    /\ pc[Probe] = "remove"
    /\ log_file' = NoFile
    /\ pc' = [pc EXCEPT ![Probe] = "done"]
    /\ outcome' = [outcome EXCEPT ![Probe] = "Passed"]
    /\ UNCHANGED << sim, tokenVars, osVars, supVars, connection, driver, marker,
                    page_loads, exception, body, log_lines, severe_messages,
                    printed, mainVars >>

Webdriver ==
    \/ Connect
    \/ ConnectionRefused
    \/ Retry
    \/ ConnectionError
    \/ CloseConnection
    \/ Firefox
    \/ Get
    \/ ExecuteScript
    \/ Settle
    \/ \E failed \in BOOLEAN : AssertBody(failed)
    \/ Sleep5
    \/ \E lines \in Logs(MaxLogLen) : ReadLog(lines)
    \/ CheckSevere
    \/ RemoveLog

\* ------------------------------------------------- the module-level block

\* Mutant of Wait: wait(futures, timeout=0) returns at once, with whatever
\* has finished.
WaitNoBlock ==
    /\ main = "wait"
    /\ done' = { f \in Futures : Finished(f) }
    /\ main' = "cancel"
    /\ UNCHANGED << sim, tokenVars, osVars, pc, outcome, supVars, probeVars, raised,
                    exit_code >>

\* wait(futures, return_when=FIRST_COMPLETED) returns the futures finished
\* by then.
Wait ==
    /\ main = "wait"
    /\ \E f \in Futures : Finished(f)
    /\ done' = { f \in Futures : Finished(f) }
    /\ main' = "cancel"
    /\ UNCHANGED << sim, tokenVars, osVars, pc, outcome, supVars, probeVars, raised,
                    exit_code >>

\* cancellation_token_source.cancel().
Cancel ==
    /\ main = "cancel"
    /\ event' = cancel(event)
    /\ main' = "result"
    /\ UNCHANGED << sim, osVars, pc, outcome, supVars, probeVars, done, raised,
                    exit_code >>

\* What [future.result() for future in done] raises: the exception of a done
\* future that raised (the first in the set's order), None when none did.
Results(d) ==
    IF \E f \in d : Raised(f)
    THEN { <<outcome[f], f>> : f \in { g \in d : Raised(g) } }
    ELSE { None }

\* [future.result() for future in done].
Result ==
    /\ main = "result"
    /\ \E r \in Results(done) : raised' = r
    /\ main' = "shutdown"
    /\ UNCHANGED << sim, tokenVars, osVars, pc, outcome, supVars, probeVars, done,
                    exit_code >>

\* The interpreter's exit status: 1 for an uncaught exception and for
\* SystemExit(1), 0 otherwise.
ExitStatus(r) == IF r = None THEN 0 ELSE 1

\* Mutant of Shutdown: shutdown(wait=False), the workers are not joined.
ShutdownNoWait ==
    /\ main = "shutdown"
    /\ main' = "exited"
    /\ exit_code' = << ExitStatus(raised) >>
    /\ UNCHANGED << sim, tokenVars, osVars, pc, outcome, supVars, probeVars, done,
                    raised >>

\* ThreadPoolExecutor.__exit__: shutdown(wait=True) joins the three workers;
\* then the pending exception, if any, ends the interpreter.
Shutdown ==
    /\ main = "shutdown"
    /\ \A f \in Futures : Finished(f)
    /\ main' = "exited"
    /\ exit_code' = << ExitStatus(raised) >>
    /\ UNCHANGED << sim, tokenVars, osVars, pc, outcome, supVars, probeVars, done,
                    raised >>

Main ==
    \/ Wait
    \/ Cancel
    \/ Result
    \/ Shutdown

Environment ==
    \/ \E p \in Procs : \E c \in ExitCodes : ProcessExits(p, c)
    \/ BackendListens

Next ==
    \/ Environment
    \/ \E p \in Procs : Supervisor(p)
    \/ Webdriver
    \/ Main

Spec == Init /\ [][Next]_vars

\* SIGINT reaches the process: KeyboardInterrupt is raised in the main thread,
\* wherever it stands in the with block.  Nothing catches it: it leaves the
\* block through ThreadPoolExecutor.__exit__ (which joins the workers), or
\* replaces the exception pending there, and the interpreter ends on it once
\* the workers are done, with status 1 (by SIGINT itself from Python 3.8).
KeyboardInterrupt ==
    /\ main \in {"wait", "cancel", "result", "shutdown"}
    /\ raised # <<"KeyboardInterrupt", "main">>
    /\ raised' = <<"KeyboardInterrupt", "main">>
    /\ main' = "shutdown"
    /\ UNCHANGED << sim, tokenVars, osVars, pc, outcome, supVars, probeVars, done,
                    exit_code >>

InterruptNext ==
    \/ Next
    \/ KeyboardInterrupt

\* The run with the user's interrupt as one more move of the environment.
InterruptSpec == Init /\ [][InterruptNext]_vars

\* The pool runs every worker thread and the main thread: each takes its next
\* step when it has one.  Nothing is assumed of the environment.
FairSpec ==
    /\ Spec
    /\ \A p \in Procs : WF_vars(Supervisor(p))
    /\ WF_vars(Webdriver)
    /\ WF_vars(Main)

\* ------------------------------------------------- the log evaluation alone

\* The probe about to read the log in a run where nothing else has ended:
\* both processes run, the backend listens, the page was loaded twice around
\* the marker, the body assertion held and the second sleep is over.  It is a
\* reachable state of Spec.
EvaluatingInit ==
    /\ event = _create_cancellation_token
    /\ process = [p \in Procs |-> Running]
    /\ listening = TRUE
    /\ pc = [f \in Futures |-> IF f \in Procs THEN "is_cancelled" ELSE "read_log"]
    /\ outcome = [f \in Futures |-> "running"]
    /\ returncode = [p \in Procs |-> None]
    /\ connection = "closed"
    /\ exception = "None"
    /\ body = "ok"
    /\ driver = "open"
    /\ marker = TRUE
    /\ page_loads = 2
    /\ log_file = [exists |-> TRUE, lines |-> <<>>]
    /\ log_lines = <<>>
    /\ severe_messages = <<>>
    /\ printed = <<>>
    /\ main = "wait"
    /\ done = {}
    /\ raised = None
    /\ exit_code = None
    /\ sim = NoSimulation

EvaluatingNext ==
    \/ \E lines \in Logs(MaxLogInput) : ReadLog(lines)
    \/ CheckSevere
    \/ RemoveLog

EvaluatingSpec == EvaluatingInit /\ [][EvaluatingNext]_vars

\* ------------------------------------------- scripts/start-simulation.py

\* The entry point is a program of its own.  Its state is the record sim; its
\* two server processes (serve.py as "http", the visualization server as
\* "ws") and the backend's port are process and listening, which the
\* environment moves as above.

\* _append_release_flag.
_append_release_flag(command, release) ==
    IF release THEN command \o << "--release" >> ELSE command

\* _get_visualization_client_build_command.
_get_visualization_client_build_command(release) ==
    _append_release_flag(<< "build.py", "--webpack" >>, release)

\* _get_start_visualization_server_command.
_get_start_visualization_server_command(release) ==
    _append_release_flag(
        << "cargo", "run", "-p", "myelin-visualization-server" >>, release)

\* The command line of each task's check_call.
Command(p, release) ==
    IF p = "http" THEN << "serve.py" >>
    ELSE _get_start_visualization_server_command(release)

\* start(release, open, build) is called with the parsed arguments: nothing
\* is built or submitted yet, and wasm-loading-test/main.py is not running.
SimInit ==
    /\ \E release \in BOOLEAN, open \in BOOLEAN, build \in BOOLEAN :
          sim = [ main |-> "build", release |-> release, open |-> open,
                  build |-> build, built |-> <<>>,
                  task |-> [p \in Procs |-> "pending"],
                  args |-> [p \in Procs |-> <<>>],
                  result |-> [p \in Procs |-> "running"],
                  exception |-> "None", browser |-> FALSE ]
    /\ event = _create_cancellation_token
    /\ process = [p \in Procs |-> NotSpawned]
    /\ listening = FALSE
    /\ pc = [f \in Futures |-> "none"]
    /\ outcome = [f \in Futures |-> "running"]
    /\ returncode = [p \in Procs |-> None]
    /\ connection = "None"
    /\ exception = "None"
    /\ body = "None"
    /\ driver = "none"
    /\ marker = FALSE
    /\ page_loads = 0
    /\ log_file = NoFile
    /\ log_lines = <<>>
    /\ severe_messages = <<>>
    /\ printed = <<>>
    /\ main = "none"
    /\ done = {}
    /\ raised = None
    /\ exit_code = None

\* What the entry point leaves alone: all of main.py's state but the
\* processes, the port and the exit status.
simIdle ==
    << tokenVars, pc, outcome, probeVars, main, done, raised >>

\* if build: _build_visualization_client(release).  check_call runs build.py
\* to its end with exit code c and raises CalledProcessError unless c is 0;
\* nothing catches that, so the interpreter ends with status 1.
SimBuild(c) ==
    /\ sim.main = "build"
    /\ IF sim.build
       THEN /\ sim' = [sim EXCEPT
                          !.built = _get_visualization_client_build_command(sim.release),
                          !.main = IF c = 0 THEN "submit" ELSE "exited",
                          !.exception = IF c = 0 THEN "None"
                                        ELSE "CalledProcessError"]
            /\ exit_code' = IF c = 0 THEN exit_code ELSE <<1>>
       ELSE /\ c = 0
            /\ sim' = [sim EXCEPT !.main = "submit"]
            /\ UNCHANGED exit_code
    /\ UNCHANGED << simIdle, osVars, supVars >>

\* with ThreadPoolExecutor(max_workers=2): the two submits; each task gets a
\* worker thread of its own.
Submit ==
    /\ sim.main = "submit"
    /\ sim' = [sim EXCEPT !.main = "as_completed",
                          !.task = [p \in Procs |-> "check_call"],
                          !.args = [p \in Procs |-> Command(p, sim.release)]]
    /\ UNCHANGED << simIdle, osVars, supVars, exit_code >>

\* subprocess.check_call(command): the process starts.
SimCheckCall(p) ==
    /\ sim.task[p] = "check_call"
    /\ process' = [process EXCEPT ![p] = Running]
    /\ sim' = [sim EXCEPT !.task[p] = "wait"]
    /\ UNCHANGED << simIdle, listening, supVars, exit_code >>

\* check_call returns when the process has ended: CalledProcessError for a
\* nonzero exit code, else the task returns.
SimWait(p) ==
    /\ sim.task[p] = "wait"
    /\ process[p].state = "Exited"
    /\ process' = [process EXCEPT ![p] = Polled(process[p])]
    /\ returncode' = [returncode EXCEPT ![p] = poll(process[p])]
    /\ sim' = [sim EXCEPT !.task[p] = "done",
                          !.result[p] = IF Truthy(poll(process[p]))
                                        THEN "CalledProcessError"
                                        ELSE "returned"]
    /\ UNCHANGED << simIdle, listening, exit_code >>

\* [future.result() for future in as_completed(futures)]: the module imports
\* ThreadPoolExecutor and Future only, so the name as_completed raises
\* NameError, inside the with block.
AsCompleted ==
    /\ sim.main = "as_completed"
    /\ sim' = [sim EXCEPT !.main = "shutdown", !.exception = "NameError"]
    /\ UNCHANGED << simIdle, osVars, supVars, exit_code >>

\* ThreadPoolExecutor.__exit__ joins both workers, then the NameError leaves
\* start and the interpreter: status 1.  `if open:` and what it guards
\* (_poll_visualization_server, _open_browser) follow the with block and are
\* reached on no path, so no step sets sim.browser.
SimShutdown ==
    /\ sim.main = "shutdown"
    /\ \A p \in Procs : sim.task[p] = "done"
    /\ sim' = [sim EXCEPT !.main = "exited"]
    /\ exit_code' = << ExitStatus(<< sim.exception, "main" >>) >>
    /\ UNCHANGED << simIdle, osVars, supVars >>

\* SIGINT: KeyboardInterrupt in the main thread, inside the with block.
SimInterrupt ==
    /\ sim.main \in {"submit", "as_completed", "shutdown"}
    /\ sim' = [sim EXCEPT !.main = "interrupted",
                          !.exception = "KeyboardInterrupt"]
    /\ UNCHANGED << simIdle, osVars, supVars, exit_code >>

\* except KeyboardInterrupt: sys.exit(0).  The workers are joined before the
\* process ends, by __exit__ or by the interpreter's shutdown.
SimExit ==
    /\ sim.main = "interrupted"
    /\ \A p \in Procs : sim.task[p] \in {"pending", "done"}
    /\ sim' = [sim EXCEPT !.main = "exited"]
    /\ exit_code' = <<0>>
    /\ UNCHANGED << simIdle, osVars, supVars >>

SimNext ==
    \/ \E c \in ExitCodes : SimBuild(c)
    \/ Submit
    \/ \E p \in Procs : SimCheckCall(p)
    \/ \E p \in Procs : SimWait(p)
    \/ AsCompleted
    \/ SimShutdown
    \/ SimInterrupt
    \/ SimExit
    \/ Environment

SimSpec == SimInit /\ [][SimNext]_vars

\* ------------------------------------------------------------------ claims

Exited == main = "exited"

\* The stages of the probe before it evaluates the page (the body assertion).
BeforeEvaluating ==
    pc[Probe] \in { "create_connection", "sleep", "finally", "Firefox", "get",
                    "execute_script", "settle" }

\* The backend ended on its own with exit code 1 while the probe had not
\* reached the evaluation.
BackendCrashedEarly ==
    /\ process["ws"].state = "Exited"
    /\ process["ws"].code = <<1>>
    /\ BeforeEvaluating

\* Another participant than the backend supervisor failed by itself.
OtherFailure ==
    \/ outcome["http"] \in {"SpawnError", "CalledProcessError"}
    \/ outcome[Probe] \in {"OSError", "AssertionError", "SystemExit", "ValueError"}

\* C1: once the backend has exited with code 1 before the probe evaluates the
\* page, the run eventually ends, with exit code 1 and the backend's
\* CalledProcessError as the reason (unless another participant fails too).
C1_BackendCrashAborts ==
    BackendCrashedEarly
        ~> \/ Exited /\ exit_code = <<1>> /\ raised = <<"CalledProcessError", "ws">>
           \/ OtherFailure

\* The task stopped because it saw the token cancelled.
ObservedCancellation(f) == outcome[f] = "Cancelled"

\* The task stands at a poll tick: the cancellation check of a supervisor, a
\* sleep of the probe (the poller's retry sleep and the two grace periods).
AtPollTick(f) ==
    IF f \in Procs
    THEN pc[f] = "is_cancelled"
    ELSE pc[f] \in {"sleep", "settle", "sleep_5"}

\* C2: once the token is set after the first completion, each participant
\* still running stops because of the cancellation at its next poll tick.
C2_RaceToFirstCompletion ==
    [][ \A f \in Futures :
            (is_cancelled(event) /\ AtPollTick(f) /\ pc'[f] # pc[f])
                => (Finished(f)' /\ ObservedCancellation(f)') ]_vars

\* The supervisor of p reported an abnormal exit of its process.
FailedAbnormalExit(p) == outcome[p] = "CalledProcessError"

\* C3: the run ends with exit code 0 only if the probe passed and neither
\* supervisor reported an abnormal exit.
C3_Aggregation ==
    (Exited /\ exit_code = <<0>>) =>
        /\ outcome[Probe] = "Passed"
        /\ \A p \in Procs : ~FailedAbnormalExit(p)

\* C4: when the run has ended, the three tasks have finished, no supervised
\* process is running and the browser session is not open.
C4_Teardown ==
    Exited =>
        /\ \A f \in Futures : Finished(f)
        /\ \A p \in Procs : process[p].state # "Running"
        /\ driver # "open"

\* The run ended on a participant's error after a browser session and both
\* processes had been started.
C4_Witness ==
    /\ Exited
    /\ raised # None
    /\ driver = "quit"
    /\ \A p \in Procs : process[p].state \in {"Exited", "Killed"}

\* C5: a supervisor that has returned or raised leaves no running process:
\* the process it started has ended and its exit status was collected.
C5_NoLeakedProcess ==
    \A p \in Procs :
        Finished(p) =>
            /\ process[p].state # "Running"
            /\ process[p].state # "NotSpawned" => process[p].reaped

\* One supervisor returned on cancellation and the other raised on an abnormal
\* exit.
C5_Witness ==
    \E p, q \in Procs :
        /\ outcome[p] = "Cancelled" /\ process[p].state = "Killed"
        /\ outcome[q] = "CalledProcessError" /\ process[q].state = "Exited"

\* C6: once set the token stays set, and every check of a holder made while
\* it is set takes the cancelled branch.
C6_CancelMonotonic ==
    [][ /\ event => event'
        /\ \A p \in Procs :
               (event /\ pc[p] = "is_cancelled" /\ pc'[p] # pc[p])
                   => outcome'[p] = "Cancelled" ]_vars

\* Both holders of the token have seen it set.
C6_Witness ==
    /\ event
    /\ \A p \in Procs : outcome[p] = "Cancelled"

\* The supervisor of p returned because its process exited with code 0.
Completed(p) == Finished(p) /\ outcome[p] = "Completed"

\* C7: a supervisor whose poll saw exit code 0 has returned Completed.
C7_ZeroExitCompletes ==
    \A p \in Procs : returncode[p] = <<0>> => Completed(p)

\* A process ended by itself, or was never started.
ServerStopped == \E p \in Procs : process[p].state \in {"Exited", "NotSpawned"}

\* The probe ended otherwise than by passing.
ProbeFailed ==
    outcome[Probe] \in {"OSError", "AssertionError", "SystemExit", "ValueError"}

HappyEnd ==
    /\ Exited
    /\ exit_code = <<0>>
    /\ outcome[Probe] = "Passed"
    /\ event
    /\ \A p \in Procs : outcome[p] = "Cancelled" /\ process[p].state = "Killed"

\* C8: when both processes run until they are terminated, the backend listens
\* and the probe finds nothing wrong, the run ends, and it ends with the probe
\* passed, both supervisors cancelled and exit code 0.
C8_HappyPath ==
    /\ [](Exited => (HappyEnd \/ ServerStopped \/ ProbeFailed))
    /\ listening ~> (HappyEnd \/ ServerStopped \/ ProbeFailed)

C8_Witness == HappyEnd

\* The probe ended in Failed: the body assertion or a severe console message.
Failed == outcome[Probe] \in {"AssertionError", "SystemExit"}

\* C9: a run whose probe ended in Failed ends with exit code 1.
C9_ProbeFailureFails == (Exited /\ Failed) => exit_code = <<1>>

\* The probe failed on a severe message after wait() had returned without it,
\* beside a supervisor that raised.
C9_Witness ==
    /\ Exited
    /\ outcome[Probe] = "SystemExit"
    /\ Probe \notin done
    /\ exit_code = <<1>>

\* The position of the first marker line of a log that has one.
FirstMarker(lines) ==
    CHOOSE i \in DOMAIN lines :
        /\ lines[i] = MarkerLine
        /\ \A j \in 1..(i - 1) : lines[j] # MarkerLine

\* The positions at or after the first marker that hold a severe entry.
Offending(lines) ==
    { i \in DOMAIN lines : i >= FirstMarker(lines) /\ lines[i][1] = "console.error:" }

\* The entries at those positions, in log order.
OffendingEntries(lines) ==
    [ k \in 1..Cardinality(Offending(lines)) |->
        lines[CHOOSE i \in Offending(lines) :
                Cardinality({ j \in Offending(lines) : j < i }) = k - 1] ]

HasMarker(lines) == \E i \in DOMAIN lines : lines[i] = MarkerLine

\* C10: for a log with the marker, the messages the probe found and cites are
\* the severe entries from the first marker on, in log order, and the probe
\* passes exactly when there is none.
C10_LogTruncation ==
    (pc[Probe] \in {"check_severe", "remove", "done"} /\ HasMarker(log_file.lines)) =>
        /\ severe_messages = OffendingEntries(log_file.lines)
        /\ pc[Probe] = "remove" => OffendingEntries(log_file.lines) = <<>>
        /\ pc[Probe] = "done" =>
               /\ outcome[Probe] = "SystemExit"
               /\ OffendingEntries(log_file.lines) # <<>>
               /\ printed = OffendingEntries(log_file.lines)

\* A log with a severe entry before the marker and two different ones after
\* it: the probe failed citing the two, in order.
C10_Witness ==
    /\ outcome[Probe] = "SystemExit"
    /\ log_file.lines = << <<"console.log:", "ready">>,
                           <<"console.error:", "panic">>,
                           MarkerLine,
                           <<"console.error:", "oops">>,
                           <<"console.error:", "panic">> >>
    /\ printed = << <<"console.error:", "oops">>, <<"console.error:", "panic">> >>

\* C11: a supervisor that finds the token set when its process has already
\* ended returns Cancelled, and the termination changes nothing of the process
\* but that its exit status is collected.
C11_TerminateExitedHarmless ==
    [][ \A p \in Procs :
            ( /\ pc[p] = "is_cancelled"
              /\ is_cancelled(event)
              /\ process[p].state = "Exited"
              /\ pc'[p] # pc[p] )
                => /\ outcome'[p] = "Cancelled"
                   /\ process'[p] = [process[p] EXCEPT !.reaped = TRUE] ]_vars

\* A supervisor was cancelled after its process had exited with code 0 and a
\* poll had seen it.
C11_Witness ==
    \E p \in Procs :
        /\ outcome[p] = "Cancelled"
        /\ process[p] = [state |-> "Exited", code |-> <<0>>, reaped |-> TRUE]
        /\ returncode[p] = <<0>>

\* The probe is inside _poll_visualization_server.
InPoller == pc[Probe] \in {"create_connection", "sleep", "finally"}

\* _poll_visualization_server has returned.
PollerReturned == ~InPoller /\ outcome[Probe] # "OSError"

\* C12: the poller returns only after an attempt that connected, with that
\* connection closed; an attempt at a listening port is not followed by a
\* sleep; an attempt at a port that is not listening never connects and, after
\* the sleep, is repeated.
C12_ReadinessPolling ==
    /\ [](PollerReturned => connection = "closed" /\ exception = "None")
    /\ [][ pc'[Probe] # pc[Probe] =>
             /\ (pc[Probe] = "create_connection" /\ listening)
                    => \/ pc'[Probe] = "finally" /\ connection' = "open"
                       \/ outcome'[Probe] = "OSError"
             /\ (pc[Probe] = "create_connection" /\ ~listening)
                    => \/ pc'[Probe] = "sleep" /\ connection' = "None"
                       \/ outcome'[Probe] = "OSError"
             /\ pc[Probe] = "sleep" => pc'[Probe] = "create_connection"
             /\ pc[Probe] = "finally" => PollerReturned' ]_vars

\* The poller has just returned.
C12_Witness ==
    /\ pc[Probe] = "Firefox"
    /\ connection = "closed"
    /\ listening

\* C13: a run that ends on the user's interrupt ends with exit code 0 (unless
\* a participant failed as well).
C13_InterruptIsSuccess ==
    (Exited /\ raised = <<"KeyboardInterrupt", "main">>) =>
        \/ exit_code = <<0>>
        \/ \E f \in Futures : Raised(f)

\* The stage of the probe: what it is doing, or how it ended.
Stage ==
    CASE InPoller -> "AwaitReady"
      [] pc[Probe] = "Firefox" -> "Init"
      [] pc[Probe] = "get" /\ ~marker -> "FirstLoad"
      [] pc[Probe] = "execute_script" -> "MarkerInjected"
      [] pc[Probe] = "get" /\ marker -> "ReloadedLoad"
      [] pc[Probe] = "settle" -> "Settling"
      [] pc[Probe] \in {"assert", "sleep_5", "read_log", "check_severe", "remove"}
            -> "Evaluating"
      [] pc[Probe] = "done" /\ outcome[Probe] = "Passed" -> "Passed"
      [] pc[Probe] = "done" /\ Failed -> "Failed"
      [] OTHER -> "Error"

\* What follows the first two stages in either order.
LaterStages ==
    { <<"FirstLoad", "MarkerInjected">>, <<"MarkerInjected", "ReloadedLoad">>,
      <<"ReloadedLoad", "Settling">>, <<"Settling", "Evaluating">>,
      <<"Evaluating", "Passed">>, <<"Evaluating", "Failed">>,
      <<"AwaitReady", "Error">>, <<"Evaluating", "Error">> }

\* C14 as claimed: the session is launched (Init), then the poller is awaited.
ClaimedOrder ==
    { <<"Init", "AwaitReady">>, <<"AwaitReady", "FirstLoad">> } \cup LaterStages

\* C14 as the probe runs: the poller is awaited, then the session is launched.
ProbeOrder ==
    { <<"AwaitReady", "Init">>, <<"Init", "FirstLoad">> } \cup LaterStages

\* What each stage finds of the session: none before it is launched, no load
\* before the first, one load around the marker, two loads from then on.
StageFacts ==
    /\ Stage \in {"AwaitReady", "Init"} =>
           driver = "none" /\ page_loads = 0 /\ ~marker
    /\ Stage = "FirstLoad" => driver = "open" /\ page_loads = 0 /\ ~marker
    /\ Stage = "MarkerInjected" => driver = "open" /\ page_loads = 1 /\ ~marker
    /\ Stage = "ReloadedLoad" => driver = "open" /\ page_loads = 1 /\ marker
    /\ Stage \in {"Settling", "Evaluating", "Passed", "Failed"} =>
           page_loads = 2 /\ marker

ExitedNonzero(p) ==
    process[p].state = "Exited" /\ process[p].code # <<0>>

C16_CancellationPriority ==
    [][ \A p \in Procs :
          /\ ( /\ pc[p] = "is_cancelled" /\ is_cancelled(event)
               /\ ExitedNonzero(p) /\ pc'[p] # pc[p] )
                 => outcome'[p] = "Cancelled" /\ Finished(p)'
          /\ (pc'[p] = "poll" /\ pc[p] # "poll") =>
                 pc[p] = "is_cancelled" /\ ~is_cancelled(event)
          /\ (outcome'[p] = "CalledProcessError" /\ outcome[p] # outcome'[p]) =>
                 pc[p] = "poll" ]_vars

\* A supervisor returned Cancelled although its process had ended with code 1,
\* which it never polled.
C16_Witness ==
    \E p \in Procs :
        /\ outcome[p] = "Cancelled"
        /\ process[p].state = "Exited" /\ process[p].code = <<1>>
        /\ returncode[p] = None

\* C17: the token is set by the coordinator's cancel() alone, which follows a
\* wait that returned a finished participant; so whenever the token is set
\* some participant has finished.
C17_SingleWriter ==
    /\ [](is_cancelled(event) => \E f \in Futures : Finished(f))
    /\ [][ event' # event =>
              /\ main = "cancel" /\ main' = "result"
              /\ done # {} /\ \A f \in done : Finished(f)
              /\ pc' = pc /\ outcome' = outcome ]_vars

\* The token is set and exactly one participant has finished.
C17_Witness ==
    /\ is_cancelled(event)
    /\ Cardinality({ f \in Futures : Finished(f) }) = 1
    /\ main = "result"

\* C18: the poller sleeps only on ConnectionRefusedError; any other error of
\* the connection attempt ends the probe at once, before a session exists
\* or a page is loaded, and the run then ends with exit code 1.
C18_OnlyRefusedRetried ==
    /\ [](pc[Probe] = "sleep" => exception = "ConnectionRefusedError")
    /\ [][ (exception' = "OSError" /\ exception # "OSError") =>
              /\ pc[Probe] = "create_connection"
              /\ Finished(Probe)' /\ outcome'[Probe] = "OSError" ]_vars
    /\ [](outcome[Probe] = "OSError" =>
              /\ exception = "OSError" /\ Finished(Probe)
              /\ driver = "none" /\ page_loads = 0)
    /\ []((Exited /\ outcome[Probe] = "OSError") => exit_code = <<1>>)
    /\ (outcome[Probe] = "OSError") ~> Exited

\* The run ended with exit code 1 on the OSError of the poller, both
\* supervisors cancelled.
C18_Witness ==
    /\ Exited /\ exit_code = <<1>>
    /\ raised = <<"OSError", Probe>>
    /\ page_loads = 0
    /\ \A p \in Procs : outcome[p] = "Cancelled"

\* The probe is past the body assertion.
PastAssert ==
    \/ pc[Probe] \in {"sleep_5", "read_log", "check_severe", "remove"}
    \/ outcome[Probe] \in {"ValueError", "SystemExit", "Passed"}

\* C19: a body with the failure text ends the probe with AssertionError at
\* the assertion, with no grace period after it and the log file left as it
\* was created, neither read nor removed; the probe gets to the log only with
\* a body that passed the assertion.
C19_AssertionFirst ==
    /\ [](outcome[Probe] = "AssertionError" =>
              /\ body = "Failed to initialize visualization"
              /\ log_file = [exists |-> TRUE, lines |-> <<>>]
              /\ log_lines = <<>>
              /\ severe_messages = <<>> /\ printed = <<>>)
    /\ [](PastAssert => body = "ok")
    /\ [][ (pc[Probe] = "assert" /\ pc'[Probe] # "assert") =>
              IF body' = "Failed to initialize visualization"
              THEN Finished(Probe)' /\ outcome'[Probe] = "AssertionError"
              ELSE pc'[Probe] = "sleep_5" ]_vars

\* The probe failed on the body assertion, after both loads.
C19_Witness ==
    /\ outcome[Probe] = "AssertionError"
    /\ body = "Failed to initialize visualization"
    /\ page_loads = 2 /\ driver = "quit"

\* The page is live: both server processes run and the backend listens.
PageLive ==
    /\ \A p \in Procs : process[p].state = "Running"
    /\ listening

\* The main thread of the entry point can do nothing more until both server
\* tasks have finished.
DeferredToTheEnd ==
    sim.main \in {"shutdown", "exited"}

\* C20: started with --open and not interrupted, the entry point has launched
\* the browser, or is still on its way to launching it, whenever the page is
\* live; the launch does not wait for both server tasks to finish.
C20_OpenShowsLivePage ==
    (sim.main # "none" /\ sim.open /\ sim.exception # "KeyboardInterrupt"
        /\ PageLive)
        => (sim.browser \/ ~DeferredToTheEnd)

\* C21: a log read without the marker line ends the probe with ValueError at
\* the read: nothing of the log is filtered or printed, the probe does not
\* pass (a probe that passed evaluated a log that began at the marker), and
\* the run then ends, with exit code 1.
C21_MissingMarkerNeverPasses ==
    /\ [][ (pc[Probe] = "read_log" /\ pc'[Probe] # "read_log"
                /\ ~HasMarker(log_file'.lines)) =>
              /\ Finished(Probe)' /\ outcome'[Probe] = "ValueError"
              /\ severe_messages' = <<>> /\ printed' = <<>> ]_vars
    /\ [](outcome[Probe] = "ValueError" =>
              /\ Finished(Probe) /\ ~HasMarker(log_file.lines)
              /\ severe_messages = <<>> /\ printed = <<>>)
    /\ [](pc[Probe] \in {"check_severe", "remove"} \/ outcome[Probe] = "Passed" =>
              log_lines # <<>> /\ log_lines[1] = MarkerLine)
    /\ []((Exited /\ outcome[Probe] = "ValueError") => exit_code = <<1>>)
    /\ (outcome[Probe] = "ValueError") ~> Exited

\* The run ended with exit code 1 on the ValueError of a log that held a
\* severe entry and no marker; both supervisors were cancelled.
C21_Witness ==
    /\ Exited /\ exit_code = <<1>>
    /\ raised = <<"ValueError", Probe>>
    /\ log_file.lines = << <<"console.error:", "panic">> >>
    /\ printed = <<>>
    /\ \A p \in Procs : outcome[p] = "Cancelled"

=============================================================================
